---- MODULE Spec2Model ----
(***************************************************************************)
(* Model of the proposer-aware gossiper (gossiper/proposer.go): the dedup  *)
(* caches, the mempool batching pass of TriggerGossip, sendTxs, the        *)
(* inbound HandleAppGossip and the Run loop.                               *)
(***************************************************************************)
EXTENDS Integers, Sequences, FiniteSets, TLC

(* ---------------- bounds of the model ---------------- *)
\* transaction IDs 1..NumTxs; the ID is also the mempool priority rank
NumTxs == 2
\* transactions in the mempool of the batching specification
NumBatchTxs == 3
\* width in bits of the unsigned unit counters (uint64 in the source)
UintBits == 4
\* ProposerConfig.GossipPeerCacheSize, scaled down
GossipPeerCacheSize == 2
\* ProposerConfig.GossipReceivedCacheSize, scaled down
GossipReceivedCacheSize == 2
\* longest gossip message HandleAppGossip is offered
MaxMsgLen == 2

(* ---------------- program constants ---------------- *)
GossipMinLife == 5
proposerWindow == 30

TxIDs == 1..NumTxs
BatchIDs == 1..NumBatchTxs
Self == "self"
Peers == {"p1", "p2"}
NodeIDs == {Self} \cup Peers
UintMod == 2 ^ UintBits
MaxUint == UintMod - 1

VARIABLES
  mempool,      \* IDs of the pending transactions held by vm.Mempool()
  txTimestamp,  \* tx.Base.Timestamp of every transaction (immutable)
  gossipedTxs,  \* map NodeID -> LRU of IDs (recency order, oldest first)
  receivedTxs,  \* LRU of IDs received by gossip (oldest first)
  pc,           \* position of the Run goroutine
  stopChan,     \* TRUE once vm.StopChan() is closed
  doneGossip,   \* TRUE once doneGossip is closed
  contacted,    \* history: the peers a gossip message was received from or a
                \* targeted message was sent to with success
  broadcastTxs, \* history, kept by SpecFallback: the IDs of the batches
                \* SendAppGossip took without error
  race,         \* a sendTxs call and a HandleAppGossip call that overlap: the
                \* cache instances made, the one the map holds, each call's position
  last          \* record of the last operation (history)

vars == <<mempool, txTimestamp, gossipedTxs, receivedTxs, pc, stopChan, doneGossip, contacted, broadcastTxs, race, last>>

(* ---------------- cache.LRU ---------------- *)
Has(c, k) == \E i \in 1..Len(c) : c[i] = k

RemoveKey(c, k) == SelectSeq(c, LAMBDA x : x # k)

LRUSize(size) == IF size <= 0 THEN 1 ELSE size

\* Get marks a present key as most recently used
LRUGet(c, k) == IF Has(c, k) THEN Append(RemoveKey(c, k), k) ELSE c

LRUPut(c, k, size) ==
  IF Has(c, k) THEN Append(RemoveKey(c, k), k)
  ELSE IF Len(c) >= LRUSize(size) THEN Append(Tail(c), k)
  ELSE Append(c, k)

Range(s) == {s[i] : i \in 1..Len(s)}

\* all sequences without repetition over S of length at most n
RECURSIVE DistinctSeqs(_, _)
DistinctSeqs(S, n) ==
  IF n = 0 THEN {<<>>}
  ELSE LET shorter == DistinctSeqs(S, n - 1)
       IN shorter \cup UNION {{Append(s, x) : x \in S \ Range(s)} : s \in shorter}

\* the IDs of a set in ascending order (mempool priority order)
RECURSIVE SortedSeq(_)
SortedSeq(S) ==
  IF S = {} THEN <<>>
  ELSE LET m == CHOOSE x \in S : \A y \in S : x <= y
       IN <<m>> \o SortedSeq(S \ {m})

UpdateMap(g, p, c) == [q \in (DOMAIN g) \cup {p} |-> IF q = p THEN c ELSE g[q]]

(* ---------------- collaborators of the batching pass ---------------- *)
\* tx.Payer(): the account a transaction is charged to
Payer(t) == t % 2

\* outcome of next.PreExecute and next.MaxUnits for one transaction:
\* pre is "ok" or the kind of PreExecute error, unitsErr is the error of
\* MaxUnits, units its result
OkVerdict(u) == [pre |-> "ok", unitsErr |-> FALSE, units |-> u]

PreErrVerdict(k) == [pre |-> k, unitsErr |-> FALSE, units |-> 0]

UnitsErrVerdict == [pre |-> "ok", unitsErr |-> TRUE, units |-> 0]

\* chain.HandlePreExecute: (cont, restore, removeAcct) by kind of error
HandlePreExecute(k) ==
  CASE k = "keep" -> [cont |-> TRUE, restore |-> TRUE, removeAcct |-> FALSE]
    [] k = "dropAcct" -> [cont |-> TRUE, restore |-> FALSE, removeAcct |-> TRUE]
    [] OTHER -> [cont |-> TRUE, restore |-> FALSE, removeAcct |-> FALSE]

(* ---------------- TriggerGossip: the Build visitor ---------------- *)
IsExpiredInclusive(ts, now) == ts <= now

\* next.Base.Timestamp < now
IsExpired(ts, now) == ts < now

NearExpiryShort(life) == life < GossipMinLife - 1

\* life < g.cfg.GossipMinLife
NearExpiry(life) == life < GossipMinLife

ForeignOriginIgnored(received, id) == FALSE

\* _, has := g.receivedTxs.Get(next.ID())
ForeignOrigin(received, id) == Has(received, id)

\* units+totalUnits > r.GetMaxBlockUnits(), in unsigned arithmetic
ExceedsBudget(units, totalUnits, maxBlockUnits) == (units + totalUnits) % UintMod > maxBlockUnits

KeepScanningAlways(n, maxBlockTxs) == TRUE

\* len(txs) < r.GetMaxBlockTxs(), after the append
KeepScanning(n, maxBlockTxs) == n < maxBlockTxs

Outcome(class, cont, restore, removeAcct, txs, totalUnits, received) ==
  [class |-> class, cont |-> cont, restore |-> restore, removeAcct |-> removeAcct,
   txs |-> txs, totalUnits |-> totalUnits, received |-> received]

\* b carries txs, totalUnits and the received cache; env the pass inputs
Visitor(next, b, env) ==
  LET ts == env.ts[next]
      v == env.verdict[next]
  IN IF IsExpired(ts, env.now)
       THEN Outcome("expired", TRUE, FALSE, FALSE, b.txs, b.totalUnits, b.received)
     ELSE IF NearExpiry(ts - env.now)
       THEN Outcome("nearExpiry", TRUE, TRUE, FALSE, b.txs, b.totalUnits, b.received)
     ELSE IF ForeignOrigin(b.received, next)
       THEN Outcome("foreign", TRUE, TRUE, FALSE, b.txs, b.totalUnits, LRUGet(b.received, next))
     ELSE IF v.pre # "ok"
       THEN LET h == HandlePreExecute(v.pre)
            IN Outcome("invalid", h.cont, h.restore, h.removeAcct, b.txs, b.totalUnits, b.received)
     ELSE IF v.unitsErr
       THEN Outcome("unitsErr", TRUE, FALSE, FALSE, b.txs, b.totalUnits, b.received)
     ELSE IF ExceedsBudget(v.units, b.totalUnits, env.maxBlockUnits)
       THEN Outcome("exceeds", FALSE, TRUE, FALSE, b.txs, b.totalUnits, b.received)
     ELSE Outcome("accepted", KeepScanning(Len(b.txs) + 1, env.maxBlockTxs), TRUE, FALSE,
                  Append(b.txs, next), (b.totalUnits + v.units) % UintMod, b.received)

(* ---------------- Mempool.Build ---------------- *)
\* the pass after candidate next got outcome o: the mempool keeps it if
\* restore, and drops the pending transactions of its payer if removeAcct
BuildStep(pm, b, env, next, o) ==
  [txs |-> o.txs, totalUnits |-> o.totalUnits, received |-> o.received,
   visited |-> Append(b.visited,
                      [tx |-> next, class |-> o.class, cont |-> o.cont, restore |-> o.restore,
                       removeAcct |-> o.removeAcct, units |-> env.verdict[next].units,
                       pre |-> env.verdict[next].pre,
                       unitsErr |-> env.verdict[next].unitsErr]),
   restorable |-> IF o.restore THEN b.restorable \cup {next} ELSE b.restorable,
   pm |-> IF o.removeAcct
            THEN SelectSeq(Tail(pm), LAMBDA t : Payer(t) # Payer(next))
            ELSE Tail(pm),
   cont |-> o.cont,
   err |-> Len(b.visited) + 1 = env.failAt]

\* b.pm: the candidates not yet popped, in priority order
RECURSIVE BuildLoop(_, _)
BuildLoop(b, env) ==
  IF b.pm = <<>> \/ ~b.cont \/ b.err THEN b
  ELSE BuildLoop(BuildStep(b.pm, b, env, Head(b.pm), Visitor(Head(b.pm), b, env)), env)

BuildResult(b) ==
  [txs |-> b.txs, totalUnits |-> b.totalUnits, received |-> b.received,
   visited |-> b.visited, mempool |-> Range(b.pm) \cup b.restorable, err |-> b.err]

Build(pool, received, env) ==
  BuildResult(BuildLoop([txs |-> <<>>, totalUnits |-> 0, received |-> received,
                         visited |-> <<>>, restorable |-> {}, pm |-> SortedSeq(pool),
                         cont |-> TRUE, err |-> FALSE], env))

(* ---------------- sendTxs ---------------- *)
UseFallbackOnErrOnly(propErr, order) == propErr

\* err != nil || proposers.Len() == 0
UseFallback(propErr, order) == propErr \/ Len(order) = 0

AlreadyGossipedIgnored(c, id) == FALSE

\* _, ok := c.Get(tx.ID())
AlreadyGossiped(c, id) == Has(c, id)

\* a hit of c.Get that leaves the recency of the entry alone
RECURSIVE FilterTxsNoRefresh(_, _, _, _)
FilterTxsNoRefresh(c, txs, toGossip, lookups) ==
  IF txs = <<>> THEN [c |-> c, toGossip |-> toGossip, lookups |-> lookups]
  ELSE IF Has(c, Head(txs))
    THEN FilterTxsNoRefresh(c, Tail(txs), toGossip,
                            Append(lookups, [tx |-> Head(txs), cache |-> c]))
    ELSE FilterTxsNoRefresh(LRUPut(c, Head(txs), GossipPeerCacheSize), Tail(txs),
                            Append(toGossip, Head(txs)),
                            Append(lookups, [tx |-> Head(txs), cache |-> c]))

\* the filter loop of one proposer: c is its cache; lookups records, for
\* each transaction of the batch, the cache as c.Get found it
RECURSIVE FilterTxs(_, _, _, _)
FilterTxs(c, txs, toGossip, lookups) ==
  IF txs = <<>> THEN [c |-> c, toGossip |-> toGossip, lookups |-> lookups]
  ELSE IF AlreadyGossiped(c, Head(txs))
    THEN FilterTxs(LRUGet(c, Head(txs)), Tail(txs), toGossip,
                   Append(lookups, [tx |-> Head(txs), cache |-> c]))
    ELSE FilterTxs(LRUPut(c, Head(txs), GossipPeerCacheSize), Tail(txs),
                   Append(toGossip, Head(txs)),
                   Append(lookups, [tx |-> Head(txs), cache |-> c]))

\* a failure that does not end the loop
SendStepKeepGoing(st, proposer, f, sin) ==
  IF f.toGossip = <<>> \/ (sin.failAt = proposer /\ sin.failKind = "marshal")
    THEN [st EXCEPT !.gossipedTxs = UpdateMap(st.gossipedTxs, proposer, f.c),
                    !.filters = Append(st.filters, [to |-> proposer, lookups |-> f.lookups])]
  ELSE [ret |-> "go",
        gossipedTxs |-> UpdateMap(st.gossipedTxs, proposer, f.c),
        filters |-> Append(st.filters, [to |-> proposer, lookups |-> f.lookups]),
        msgs |-> Append(st.msgs, [to |-> proposer, txs |-> f.toGossip,
                                  ok |-> ~(sin.failAt = proposer /\ sin.failKind = "send")])]

\* a send of the filtered list even when it is empty
SendStepEvenEmpty(st, proposer, f, sin) ==
  IF sin.failAt = proposer /\ sin.failKind = "marshal"
    THEN [st EXCEPT !.ret = "err", !.gossipedTxs = UpdateMap(st.gossipedTxs, proposer, f.c),
                    !.filters = Append(st.filters, [to |-> proposer, lookups |-> f.lookups])]
  ELSE [ret |-> IF sin.failAt = proposer /\ sin.failKind = "send" THEN "err" ELSE "go",
        gossipedTxs |-> UpdateMap(st.gossipedTxs, proposer, f.c),
        filters |-> Append(st.filters, [to |-> proposer, lookups |-> f.lookups]),
        msgs |-> Append(st.msgs, [to |-> proposer, txs |-> f.toGossip,
                                  ok |-> ~(sin.failAt = proposer /\ sin.failKind = "send")])]

\* one proposer of the loop: f is the result of its filter loop; the
\* state carries ret ("go" while the loop runs), gossipedTxs and msgs
SendStep(st, proposer, f, sin) ==
  IF f.toGossip = <<>>
    THEN [st EXCEPT !.gossipedTxs = UpdateMap(st.gossipedTxs, proposer, f.c),
                    !.filters = Append(st.filters, [to |-> proposer, lookups |-> f.lookups])]
  ELSE IF sin.failAt = proposer /\ sin.failKind = "marshal"
    THEN [st EXCEPT !.ret = "err", !.gossipedTxs = UpdateMap(st.gossipedTxs, proposer, f.c),
                    !.filters = Append(st.filters, [to |-> proposer, lookups |-> f.lookups])]
  ELSE [ret |-> IF sin.failAt = proposer /\ sin.failKind = "send" THEN "err" ELSE "go",
        gossipedTxs |-> UpdateMap(st.gossipedTxs, proposer, f.c),
        filters |-> Append(st.filters, [to |-> proposer, lookups |-> f.lookups]),
        msgs |-> Append(st.msgs, [to |-> proposer, txs |-> f.toGossip,
                                  ok |-> ~(sin.failAt = proposer /\ sin.failKind = "send")])]

PeerCache(g, proposer) == IF proposer \in DOMAIN g THEN g[proposer] ELSE <<>>

\* the loop over the proposers, in the iteration order of the set
RECURSIVE SendLoop(_, _, _, _)
SendLoop(order, txs, st, sin) ==
  IF st.ret # "go" THEN st
  ELSE IF order = <<>> THEN [st EXCEPT !.ret = "nil"]
  ELSE IF Head(order) = Self THEN SendLoop(Tail(order), txs, st, sin)
  ELSE SendLoop(Tail(order), txs,
                SendStep(st, Head(order),
                         FilterTxs(PeerCache(st.gossipedTxs, Head(order)), txs, <<>>, <<>>), sin),
                sin)

SendResult(r, fallback) ==
  [ret |-> r.ret, gossipedTxs |-> r.gossipedTxs, msgs |-> r.msgs, filters |-> r.filters,
   fallback |-> fallback]

\* a fallback that marks the first ID of the batch in every cache there is
sendTxsMarking(txs, g, sin) ==
  IF UseFallback(sin.propErr, sin.order)
    THEN [ret |-> IF sin.failKind = "none" THEN "nil" ELSE "err",
          gossipedTxs |-> [p \in DOMAIN g |-> LRUPut(g[p], Head(txs), GossipPeerCacheSize)],
          msgs |-> IF sin.failKind = "marshal" THEN <<>>
                   ELSE <<[to |-> "all", txs |-> txs, ok |-> sin.failKind # "send"]>>,
          filters |-> <<>>, fallback |-> TRUE]
  ELSE SendResult(SendLoop(sin.order, txs, [ret |-> "go", gossipedTxs |-> g, msgs |-> <<>>,
                                           filters |-> <<>>], sin),
                  FALSE)

\* sin: propErr (the Proposers query failed), order (the proposers as the
\* range loop visits them), failKind/failAt (a marshal or send failure)
sendTxs(txs, g, sin) ==
  IF UseFallback(sin.propErr, sin.order)
    THEN IF sin.failKind = "marshal"
           THEN [ret |-> "err", gossipedTxs |-> g, msgs |-> <<>>, filters |-> <<>>, fallback |-> TRUE]
         ELSE [ret |-> IF sin.failKind = "send" THEN "err" ELSE "nil", gossipedTxs |-> g,
               msgs |-> <<[to |-> "all", txs |-> txs, ok |-> sin.failKind # "send"]>>,
               filters |-> <<>>, fallback |-> TRUE]
  ELSE SendResult(SendLoop(sin.order, txs, [ret |-> "go", gossipedTxs |-> g, msgs |-> <<>>,
                                           filters |-> <<>>], sin),
                  FALSE)

(* ---------------- TriggerGossip ---------------- *)
NoSend == [ret |-> "none", msgs |-> <<>>, filters |-> <<>>, fallback |-> FALSE]

\* return g.sendTxs(ctx, txs)
AfterSend(b, s) ==
  [ret |-> s.ret, mempool |-> b.mempool, gossipedTxs |-> s.gossipedTxs,
   receivedTxs |-> b.received, scanned |-> TRUE, visited |-> b.visited,
   batch |-> b.txs, sendCalled |-> TRUE,
   send |-> [ret |-> s.ret, msgs |-> s.msgs, filters |-> s.filters, fallback |-> s.fallback]]

\* a pass that gossips what it collected before the iteration failed
AfterBuildSendsPartial(g, sin, b) ==
  IF b.txs = <<>>
    THEN [ret |-> IF b.err THEN "err" ELSE "nil", mempool |-> b.mempool,
          gossipedTxs |-> g, receivedTxs |-> b.received, scanned |-> TRUE,
          visited |-> b.visited, batch |-> b.txs, sendCalled |-> FALSE, send |-> NoSend]
  ELSE AfterSend(b, sendTxs(b.txs, g, sin))

\* after Mempool().Build: mempoolErr is returned, an empty batch returns nil
AfterBuild(g, sin, b) ==
  IF b.err \/ b.txs = <<>>
    THEN [ret |-> IF b.err THEN "err" ELSE "nil", mempool |-> b.mempool,
          gossipedTxs |-> g, receivedTxs |-> b.received, scanned |-> TRUE,
          visited |-> b.visited, batch |-> b.txs, sendCalled |-> FALSE, send |-> NoSend]
  ELSE AfterSend(b, sendTxs(b.txs, g, sin))

\* tin: now, maxBlockUnits, maxBlockTxs, early (a failure before the scan),
\* verdict, failAt (mempool iteration error), sin (inputs of sendTxs)
TriggerGossip(pool, ts, g, received, tin) ==
  IF tin.early # "none"
    THEN [ret |-> "err", mempool |-> pool, gossipedTxs |-> g, receivedTxs |-> received,
          scanned |-> FALSE, visited |-> <<>>, batch |-> <<>>, sendCalled |-> FALSE, send |-> NoSend]
  ELSE AfterBuild(g, tin.sin,
                  Build(pool, received,
                        [now |-> tin.now, maxBlockUnits |-> tin.maxBlockUnits,
                         maxBlockTxs |-> tin.maxBlockTxs, ts |-> ts, verdict |-> tin.verdict,
                         failAt |-> tin.failAt]))

(* ---------------- HandleAppGossip ---------------- *)
PutAllSkipped(c, txs, size) == c

RECURSIVE PutAll(_, _, _)
PutAll(c, txs, size) ==
  IF txs = <<>> THEN c ELSE PutAll(LRUPut(c, Head(txs), size), Tail(txs), size)

SubmitRetPropagating(outcomes) ==
  IF \E i \in 1..Len(outcomes) : outcomes[i] = "other" THEN "err" ELSE "nil"

\* the loop over the errors of vm.Submit only logs; the handler returns nil
SubmitRet(outcomes) == "nil"

\* hin: nodeID, msg (the IDs the payload carries), wellFormed, maxBlockTxs,
\* val (IsValidator: "yes", "no" or "err"), outcomes (vm.Submit, per tx)
HandleAppGossip(pool, g, received, hin) ==
  IF ~hin.wellFormed \/ Len(hin.msg) > hin.maxBlockTxs
    THEN [ret |-> "nil", mempool |-> pool, gossipedTxs |-> g, receivedTxs |-> received,
          unmarshalErr |-> TRUE, submitted |-> FALSE]
  ELSE LET isValidator == hin.val = "yes"
           c == IF hin.nodeID \in DOMAIN g THEN g[hin.nodeID] ELSE <<>>
           g1 == IF isValidator
                   THEN UpdateMap(g, hin.nodeID, PutAll(c, hin.msg, GossipPeerCacheSize))
                   ELSE g
           added == {hin.msg[i] : i \in {j \in 1..Len(hin.msg) : hin.outcomes[j] = "nil"}}
       IN [ret |-> SubmitRet(hin.outcomes), mempool |-> pool \cup added, gossipedTxs |-> g1,
           receivedTxs |-> PutAll(received, hin.msg, GossipReceivedCacheSize),
           unmarshalErr |-> FALSE, submitted |-> TRUE]

(* ---------------- history of the last operation ---------------- *)
NoSin == [propErr |-> FALSE, order |-> <<>>, failKind |-> "none", failAt |-> "none"]

NoTick == [prop |-> "none", blk |-> "none", tmstmp |-> 0, skip |-> "none"]

NoHag == [nodeID |-> "none", msg |-> <<>>, wellFormed |-> TRUE, unmarshalErr |-> FALSE,
          val |-> "none", outcomes |-> <<>>, submitted |-> FALSE]

NoLast == [op |-> "none", ret |-> "none", now |-> 0, maxBlockUnits |-> 0, maxBlockTxs |-> 0,
           failAt |-> 0, scanned |-> FALSE, visited |-> <<>>, batch |-> <<>>, sendCalled |-> FALSE,
           sin |-> NoSin, send |-> NoSend, tick |-> NoTick, hag |-> NoHag]

(* ---------------- inputs ---------------- *)
BaseNow == 100

\* the proposer sets as the range loop may visit them: the local node, when
\* it is in the window, is listed first (its position changes nothing)
Orders == {a \o b : a \in {<<>>, <<Self>>}, b \in DistinctSeqs(Peers, Cardinality(Peers))}

SendInputs ==
  {[propErr |-> e, order |-> <<>>, failKind |-> k, failAt |-> "all"] :
      e \in BOOLEAN, k \in {"none", "marshal", "send"}}
  \cup {[propErr |-> FALSE, order |-> o, failKind |-> "none", failAt |-> "none"] :
      o \in Orders \ {<<>>}}
  \cup UNION {{[propErr |-> FALSE, order |-> o, failKind |-> k, failAt |-> p] :
      k \in {"marshal", "send"}, p \in Range(o) \ {Self}} : o \in Orders}

\* one verdict per transaction; a transaction the visitor decides before
\* PreExecute (or that is not in the mempool) gets OkVerdict(0), which is never read
RECURSIVE VerdictFuns(_, _, _)
VerdictFuns(S, V, D) ==
  IF S = {} THEN {[t \in D |-> OkVerdict(0)]}
  ELSE LET t == CHOOSE x \in S : TRUE
       IN {[f EXCEPT ![t] = v] : f \in VerdictFuns(S \ {t}, V, D), v \in V}

ReachPreExecute(pool, ts, received, now) ==
  {t \in pool : ts[t] >= now /\ ts[t] - now >= GossipMinLife /\ ~Has(received, t)}

\* vm.Submit: one outcome per transaction; a transaction already in the
\* mempool is a duplicate
RECURSIVE OutcomeSeqs(_, _, _)
OutcomeSeqs(msg, pool, Outs) ==
  IF msg = <<>> THEN {<<>>}
  ELSE {<<o>> \o rest : o \in IF Head(msg) \in pool THEN {"dup"} ELSE Outs,
                        rest \in OutcomeSeqs(Tail(msg), pool, Outs)}

\* no calls overlap: the calls of the actions below run one at a time
NoRace ==
  [heap |-> <<>>, slot |-> 0, fatal |-> FALSE,
   th |-> [t \in {"send", "hag"} |-> [pc |-> "idle", c |-> 0, txs |-> <<>>, all |-> <<>>]]]

(* ---------------- actions ---------------- *)
\* the node is up and has not begun to shut down
Running == pc = "Idle" /\ ~stopChan

\* the peers of the targeted messages whose send returned nil
Reached(msgs) == {msgs[i].to : i \in {j \in 1..Len(msgs) : msgs[j].to \in Peers /\ msgs[j].ok}}

\* the IDs of the batches that were broadcast with success
BroadcastOf(msgs) ==
  UNION {Range(msgs[i].txs) : i \in {j \in 1..Len(msgs) : msgs[j].to = "all" /\ msgs[j].ok}}

\* the state and the history after a call of TriggerGossip returned res
ApplyCycle(op, tick, tin, res) ==
  /\ mempool' = res.mempool
  /\ gossipedTxs' = res.gossipedTxs
  /\ contacted' = contacted \cup Reached(res.send.msgs)
  /\ UNCHANGED race
  /\ receivedTxs' = res.receivedTxs
  /\ last' = [NoLast EXCEPT !.op = op, !.tick = tick, !.now = tin.now, !.ret = res.ret,
                !.maxBlockUnits = tin.maxBlockUnits, !.maxBlockTxs = tin.maxBlockTxs,
                !.failAt = tin.failAt,
                !.scanned = res.scanned, !.visited = res.visited,
                !.batch = res.batch, !.sendCalled = res.sendCalled,
                !.sin = IF res.sendCalled THEN tin.sin ELSE NoSin, !.send = res.send]

\* the inputs of sendTxs matter only when the pass b reaches it
SinChoices(b, Sins) == IF b.err \/ b.txs = <<>> THEN {NoSin} ELSE Sins

\* one call of TriggerGossip at time now; op and tick go to the history
GossipCycle(op, tick, now, Rules, Verdicts, FailAts, Earlies, Sins) ==
  \/ \E early \in Earlies \ {"none"} :
       ApplyCycle(op, tick,
                  [now |-> now, maxBlockUnits |-> 0, maxBlockTxs |-> 0, early |-> early,
                   verdict |-> <<>>, failAt |-> 0, sin |-> NoSin],
                  TriggerGossip(mempool, txTimestamp, gossipedTxs, receivedTxs,
                                [now |-> now, maxBlockUnits |-> 0, maxBlockTxs |-> 0,
                                 early |-> early, verdict |-> <<>>, failAt |-> 0, sin |-> NoSin]))
  \/ \E r \in Rules, failAt \in FailAts :
     \E verdict \in VerdictFuns(ReachPreExecute(mempool, txTimestamp, receivedTxs, now), Verdicts,
                               DOMAIN txTimestamp) :
     \E sin \in SinChoices(Build(mempool, receivedTxs,
                                 [now |-> now, maxBlockUnits |-> r.maxBlockUnits,
                                  maxBlockTxs |-> r.maxBlockTxs, ts |-> txTimestamp,
                                  verdict |-> verdict, failAt |-> failAt]), Sins) :
     \E tin \in {[now |-> now, maxBlockUnits |-> r.maxBlockUnits, maxBlockTxs |-> r.maxBlockTxs,
                  early |-> "none", verdict |-> verdict, failAt |-> failAt, sin |-> sin]} :
       ApplyCycle(op, tick, tin,
                  TriggerGossip(mempool, txTimestamp, gossipedTxs, receivedTxs, tin))

\* Run: the goroutine starts, sets appSender and enters the select
Run ==
  /\ last = NoLast
  /\ pc = "NotStarted"
  /\ pc' = "Idle"
  /\ last' = [NoLast EXCEPT !.op = "Run"]
  /\ UNCHANGED <<mempool, txTimestamp, gossipedTxs, contacted, broadcastTxs, race, receivedTxs, stopChan, doneGossip>>

\* err == nil && proposers.Contains(g.vm.NodeID())
SoonToPropose(prop) == prop = "self"

NoRecentBlockLate(tmstmp, now) == tmstmp + proposerWindow < now - 1

\* preferredBlk.Tmstmp+proposerWindow < time.Now().Unix()
NoRecentBlock(tmstmp, now) == tmstmp + proposerWindow < now

\* the select takes case <-t.C.  prop: the depth-1 Proposers query failed
\* ("err"), lists the local node ("self") or does not ("others"); blk: the
\* PreferredBlock call succeeded ("ok"), failed and returned no block
\* ("errNil") or failed and returned a block ("errStale")
Tick(Nows, Rules, Verdicts, FailAts, Earlies, Sins) ==
  /\ last = NoLast
  /\ pc = "Idle"
  /\ UNCHANGED <<txTimestamp, stopChan, broadcastTxs>>
  /\ \E prop \in {"err", "self", "others"} :
       IF SoonToPropose(prop)
         THEN /\ last' = [NoLast EXCEPT !.op = "Tick", !.ret = "skip",
                            !.tick = [prop |-> prop, blk |-> "none", tmstmp |-> 0, skip |-> "soon"]]
              /\ UNCHANGED <<mempool, gossipedTxs, contacted, race, receivedTxs, pc, doneGossip>>
       ELSE \E blk \in {"ok", "errNil", "errStale"} :
         IF blk = "errNil"
           \* preferredBlk.Tmstmp dereferences nil: the goroutine panics, the
           \* deferred close(doneGossip) runs, the process dies
           THEN /\ pc' = "Panicked"
                /\ doneGossip' = TRUE
                /\ last' = [NoLast EXCEPT !.op = "Tick", !.ret = "panic",
                              !.tick = [prop |-> prop, blk |-> blk, tmstmp |-> 0, skip |-> "none"]]
                /\ UNCHANGED <<mempool, gossipedTxs, contacted, race, receivedTxs>>
         ELSE \E now \in Nows :
              \E tmstmp \in {now - proposerWindow - 1, now - proposerWindow} :
                /\ UNCHANGED <<pc, doneGossip>>
                /\ IF NoRecentBlock(tmstmp, now)
                     THEN /\ last' = [NoLast EXCEPT !.op = "Tick", !.ret = "skip", !.now = now,
                                        !.tick = [prop |-> prop, blk |-> blk, tmstmp |-> tmstmp,
                                                  skip |-> "stale"]]
                          /\ UNCHANGED <<mempool, gossipedTxs, contacted, race, receivedTxs>>
                   ELSE GossipCycle("Tick", [prop |-> prop, blk |-> blk, tmstmp |-> tmstmp,
                                             skip |-> "none"],
                                    now, Rules, Verdicts, FailAts, Earlies, Sins)

\* the VM closes its stop channel
RaiseStop ==
  /\ last = NoLast
  /\ ~stopChan
  /\ pc # "Panicked"
  /\ stopChan' = TRUE
  /\ last' = [NoLast EXCEPT !.op = "Stop"]
  /\ UNCHANGED <<mempool, txTimestamp, gossipedTxs, contacted, broadcastTxs, race, receivedTxs, pc, doneGossip>>

\* the select takes case <-g.vm.StopChan(): return, deferred close(doneGossip)
ExitLoop ==
  /\ last = NoLast
  /\ pc = "Idle"
  /\ stopChan
  /\ pc' = "Stopped"
  /\ doneGossip' = TRUE
  /\ last' = [NoLast EXCEPT !.op = "Exit"]
  /\ UNCHANGED <<mempool, txTimestamp, gossipedTxs, contacted, broadcastTxs, race, receivedTxs, stopChan>>

\* Done() returns once doneGossip is closed
Done == doneGossip

\* the state and the history after HandleAppGossip returned res
ApplyHag(hin, res) ==
  /\ mempool' = res.mempool
  /\ gossipedTxs' = res.gossipedTxs
  /\ contacted' = IF res.unmarshalErr THEN contacted ELSE contacted \cup {hin.nodeID}
  /\ UNCHANGED <<broadcastTxs, race>>
  /\ receivedTxs' = res.receivedTxs
  /\ last' = [NoLast EXCEPT !.op = "HandleAppGossip", !.ret = res.ret,
                !.hag = [nodeID |-> hin.nodeID, msg |-> hin.msg,
                         wellFormed |-> hin.wellFormed, unmarshalErr |-> res.unmarshalErr,
                         val |-> hin.val, outcomes |-> hin.outcomes,
                         submitted |-> res.submitted]]

\* a gossip message carrying IDs of the set IDs arrives from a peer of Nodes
AppGossipOf(IDs, Nodes, MaxTxs, Vals, Outs) ==
  /\ last = NoLast
  /\ Running
  /\ UNCHANGED <<txTimestamp, pc, stopChan, doneGossip>>
  /\ \E nodeID \in Nodes, maxBlockTxs \in MaxTxs :
     \E hin \in
          {[nodeID |-> nodeID, msg |-> <<>>, wellFormed |-> FALSE, maxBlockTxs |-> maxBlockTxs,
            val |-> "none", outcomes |-> <<>>]}
          \cup {[nodeID |-> nodeID, msg |-> m, wellFormed |-> TRUE, maxBlockTxs |-> maxBlockTxs,
                 val |-> "none", outcomes |-> <<>>] :
                  m \in {x \in DistinctSeqs(IDs, MaxMsgLen) : Len(x) > maxBlockTxs}}
          \cup UNION {{[nodeID |-> nodeID, msg |-> m, wellFormed |-> TRUE,
                        maxBlockTxs |-> maxBlockTxs, val |-> v, outcomes |-> o] :
                         v \in Vals, o \in OutcomeSeqs(m, mempool, Outs)} :
                  m \in {x \in DistinctSeqs(IDs, MaxMsgLen) : Len(x) \in 1..maxBlockTxs}} :
       ApplyHag(hin, HandleAppGossip(mempool, gossipedTxs, receivedTxs, hin))

\* a gossip message arrives from any peer
AppGossip(MaxTxs, Vals, Outs) == AppGossipOf(TxIDs, Peers, MaxTxs, Vals, Outs)

\* a transaction issued locally enters the mempool
SubmitLocal ==
  /\ last = NoLast
  /\ Running
  /\ \E t \in TxIDs \ mempool : mempool' = mempool \cup {t}
  /\ last' = [NoLast EXCEPT !.op = "Submit"]
  /\ UNCHANGED <<txTimestamp, gossipedTxs, contacted, broadcastTxs, race, receivedTxs, pc, stopChan, doneGossip>>

\* the record of the completed operation is consumed; the next operation
\* starts from the same program state
Observe ==
  /\ last # NoLast
  /\ last' = NoLast
  /\ UNCHANGED <<mempool, txTimestamp, gossipedTxs, contacted, broadcastTxs, race, receivedTxs, pc, stopChan, doneGossip>>

(* ---------------- the gossiper ---------------- *)
NowVals == {BaseNow, BaseNow + GossipMinLife + 1}

RuleVals == {[maxBlockUnits |-> 2, maxBlockTxs |-> 2]}

VerdictVals == {OkVerdict(1), PreErrVerdict("drop")}

\* the windows and failures the ticks of the whole gossiper meet
TickSins ==
  {[propErr |-> TRUE, order |-> <<>>, failKind |-> "none", failAt |-> "all"],
   [propErr |-> FALSE, order |-> <<>>, failKind |-> "send", failAt |-> "all"],
   [propErr |-> FALSE, order |-> <<Self, "p1", "p2">>, failKind |-> "none", failAt |-> "none"],
   [propErr |-> FALSE, order |-> <<"p2", "p1">>, failKind |-> "marshal", failAt |-> "p1"],
   [propErr |-> FALSE, order |-> <<"p1">>, failKind |-> "send", failAt |-> "p1"]}

Init ==
  /\ mempool = {}
  /\ txTimestamp = [t \in TxIDs |-> BaseNow + GossipMinLife]
  /\ gossipedTxs = [p \in {} |-> <<>>]
  /\ contacted = {}
  /\ broadcastTxs = {}
  /\ race = NoRace
  /\ receivedTxs = <<>>
  /\ pc = "NotStarted"
  /\ stopChan = FALSE
  /\ doneGossip = FALSE
  /\ last = NoLast

Next ==
  \/ Run
  \/ Tick(NowVals, RuleVals, VerdictVals, {0, 1}, {"none", "blk", "state", "ectx"}, TickSins)
  \/ RaiseStop
  \/ ExitLoop
  \/ AppGossip({1}, {"yes", "no", "err"}, {"nil", "other"})
  \/ SubmitLocal
  \/ Observe

Spec == Init /\ [][Next]_vars

\* TriggerGossip called directly (Gossiper.TriggerGossip) at time BaseNow
TriggerGossipCall(Rules, Verdicts, FailAts, Earlies, Sins) ==
  /\ last = NoLast
  /\ pc = "Idle"
  /\ UNCHANGED <<txTimestamp, pc, stopChan, doneGossip, broadcastTxs>>
  /\ GossipCycle("TriggerGossip", NoTick, BaseNow, Rules, Verdicts, FailAts, Earlies, Sins)

(* ---------------- sendTxs against the inbound handler ---------------- *)
InitSend ==
  /\ mempool = {}
  /\ txTimestamp = [t \in TxIDs |-> BaseNow + GossipMinLife]
  /\ gossipedTxs = [p \in {} |-> <<>>]
  /\ contacted = {}
  /\ broadcastTxs = {}
  /\ race = NoRace
  /\ receivedTxs = <<>>
  /\ pc = "Idle"
  /\ stopChan = FALSE
  /\ doneGossip = FALSE
  /\ last = NoLast

NextSend ==
  \/ TriggerGossipCall(RuleVals, {OkVerdict(1)}, {0}, {"none"}, SendInputs)
  \/ AppGossip({MaxMsgLen}, {"yes", "no", "err"}, {"nil", "other"})
  \/ SubmitLocal
  \/ Observe

SpecSend == InitSend /\ [][NextSend]_vars

(* ---------------- the batching pass on its own ---------------- *)
BatchTs == {BaseNow - 1, BaseNow, BaseNow + GossipMinLife - 1, BaseNow + GossipMinLife}

BatchUnits == {0, 3, 5, MaxUint}

BatchRules ==
  {[maxBlockUnits |-> u, maxBlockTxs |-> n] : u \in {0, 7, MaxUint}, n \in {0, 2, NumBatchTxs}}

BatchVerdicts ==
  {OkVerdict(u) : u \in BatchUnits}
  \cup {PreErrVerdict("keep"), PreErrVerdict("dropAcct"), UnitsErrVerdict}

BatchSins == {[propErr |-> TRUE, order |-> <<>>, failKind |-> "none", failAt |-> "all"]}

InitBatch ==
  /\ mempool = BatchIDs
  /\ txTimestamp \in [BatchIDs -> BatchTs]
  /\ gossipedTxs = [p \in {} |-> <<>>]
  /\ contacted = {}
  /\ broadcastTxs = {}
  /\ race = NoRace
  /\ receivedTxs \in DistinctSeqs(BatchIDs, LRUSize(GossipReceivedCacheSize))
  /\ pc = "Idle"
  /\ stopChan = FALSE
  /\ doneGossip = FALSE
  /\ last = NoLast

NextBatch ==
  \/ TriggerGossipCall(BatchRules, BatchVerdicts, {0}, {"none"}, BatchSins)
  \/ Observe

SpecBatch == InitBatch /\ [][NextBatch]_vars

(* ---------------- the dedup caches under capacity pressure ---------------- *)
CacheRules == {[maxBlockUnits |-> NumBatchTxs, maxBlockTxs |-> NumBatchTxs]}

CacheSins ==
  {[propErr |-> FALSE, order |-> o, failKind |-> "none", failAt |-> "none"] :
      o \in {<<"p1">>, <<Self, "p2">>, <<"p2", "p1">>}}

InitCache ==
  /\ mempool = BatchIDs
  /\ txTimestamp = [t \in BatchIDs |-> BaseNow + GossipMinLife]
  /\ gossipedTxs = [p \in {} |-> <<>>]
  /\ contacted = {}
  /\ broadcastTxs = {}
  /\ race = NoRace
  /\ receivedTxs = <<>>
  /\ pc = "Idle"
  /\ stopChan = FALSE
  /\ doneGossip = FALSE
  /\ last = NoLast

NextCache ==
  \/ TriggerGossipCall(CacheRules, {OkVerdict(1), PreErrVerdict("keep")}, {0}, {"none"}, CacheSins)
  \/ AppGossipOf(BatchIDs, {"p1"}, {2}, {"yes", "no"}, {"nil"})
  \/ Observe

SpecCache == InitCache /\ [][NextCache]_vars

(* ---------------- the broadcast fallback over several cycles ---------------- *)
\* TriggerGossip called directly, with the broadcasts it made kept in the history
TriggerGossipTracked(Rules, Verdicts, FailAts, Earlies, Sins) ==
  /\ last = NoLast
  /\ pc = "Idle"
  /\ UNCHANGED <<txTimestamp, pc, stopChan, doneGossip>>
  /\ GossipCycle("TriggerGossip", NoTick, BaseNow, Rules, Verdicts, FailAts, Earlies, Sins)
  /\ broadcastTxs' = broadcastTxs \cup BroadcastOf(last'.send.msgs)

\* the window query fails or is empty, with each outcome of the broadcast;
\* or it names proposers and the targeted sends succeed
FallbackSins ==
  {[propErr |-> e, order |-> <<>>, failKind |-> k, failAt |-> "all"] :
      e \in BOOLEAN, k \in {"none", "marshal", "send"}}
  \cup {[propErr |-> FALSE, order |-> o, failKind |-> "none", failAt |-> "none"] :
      o \in {<<"p1">>, <<Self, "p2", "p1">>}}

InitFallback ==
  /\ mempool = {}
  /\ txTimestamp = [t \in TxIDs |-> BaseNow + GossipMinLife]
  /\ gossipedTxs = [p \in {} |-> <<>>]
  /\ contacted = {}
  /\ broadcastTxs = {}
  /\ race = NoRace
  /\ receivedTxs = <<>>
  /\ pc = "Idle"
  /\ stopChan = FALSE
  /\ doneGossip = FALSE
  /\ last = NoLast

NextFallback ==
  \/ TriggerGossipTracked(RuleVals, {OkVerdict(1)}, {0}, {"none"}, FallbackSins)
  \/ AppGossipOf(TxIDs, Peers, {1}, {"yes", "no"}, {"nil"})
  \/ SubmitLocal
  \/ Observe

SpecFallback == InitFallback /\ [][NextFallback]_vars

(* ---------------- sendTxs and HandleAppGossip overlapping ---------------- *)
\* HandleAppGossip is called by the network layer while the Run goroutine is
\* in sendTxs; neither takes a lock.  Both calls are about the peer RacePeer;
\* race.heap holds the cache instances created (a cache.LRU locks itself, so
\* its Get and Put are atomic), race.slot the index of the instance
\* g.gossipedTxs[RacePeer] points to (0: no entry), race.th the two calls
RacePeer == "p1"

Other(t) == IF t = "send" THEN "hag" ELSE "send"

\* the call t is about to read or write the map g.gossipedTxs
AtMapAccess(t) == race.th[t].pc \in {"lookup", "create", "load"}

\* the map g.gossipedTxs as the pointer structure shows it
MapView(heap, slot) ==
  IF slot = 0 THEN [p \in {} |-> <<>>] ELSE [p \in {RacePeer} |-> heap[slot]]

\* c, ok := g.gossipedTxs[proposer]
GetLookup(t) ==
  /\ ~race.fatal
  /\ race.th[t].pc = "lookup"
  /\ race' = [race EXCEPT !.th[t].c = race.slot,
                           !.th[t].pc = IF race.slot = 0 THEN "create" ELSE "use"]
  /\ UNCHANGED <<mempool, txTimestamp, gossipedTxs, receivedTxs, pc, stopChan, doneGossip,
                 contacted, broadcastTxs, last>>

\* g.gossipedTxs[proposer] = &cache.LRU{...}: a map write.  When the other
\* call is at a map access too the two are a data race: the write may go
\* through, or the runtime may end the process (concurrent map access)
GetCreate(t) ==
  /\ ~race.fatal
  /\ race.th[t].pc = "create"
  /\ \/ /\ race' = [race EXCEPT !.heap = Append(race.heap, <<>>),
                                 !.slot = Len(race.heap) + 1,
                                 !.th[t].pc = "load"]
        /\ gossipedTxs' = MapView(Append(race.heap, <<>>), Len(race.heap) + 1)
     \/ /\ AtMapAccess(Other(t))
        /\ race' = [race EXCEPT !.fatal = TRUE]
        /\ UNCHANGED gossipedTxs
  /\ UNCHANGED <<mempool, txTimestamp, receivedTxs, pc, stopChan, doneGossip, contacted, broadcastTxs, last>>

\* c = g.gossipedTxs[proposer]
GetLoad(t) ==
  /\ ~race.fatal
  /\ race.th[t].pc = "load"
  /\ race' = [race EXCEPT !.th[t].c = race.slot, !.th[t].pc = "use"]
  /\ UNCHANGED <<mempool, txTimestamp, gossipedTxs, receivedTxs, pc, stopChan, doneGossip,
                 contacted, broadcastTxs, last>>

\* one round of the filter loop of sendTxs on the instance c
SendFilter ==
  /\ ~race.fatal
  /\ race.th["send"].pc = "use"
  /\ IF race.th["send"].txs = <<>>
       THEN race' = [race EXCEPT !.th["send"].pc = "done"]
       ELSE race' = [race EXCEPT
              !.heap[race.th["send"].c] =
                 IF AlreadyGossiped(race.heap[race.th["send"].c], Head(race.th["send"].txs))
                   THEN LRUGet(race.heap[race.th["send"].c], Head(race.th["send"].txs))
                   ELSE LRUPut(race.heap[race.th["send"].c], Head(race.th["send"].txs),
                               GossipPeerCacheSize),
              !.th["send"].txs = Tail(race.th["send"].txs)]
  /\ gossipedTxs' = MapView(race'.heap, race'.slot)
  /\ UNCHANGED <<mempool, txTimestamp, receivedTxs, pc, stopChan, doneGossip, contacted, broadcastTxs, last>>

\* one round of the loop of HandleAppGossip: c.Put and g.receivedTxs.Put
HagPut ==
  /\ ~race.fatal
  /\ race.th["hag"].pc = "use"
  /\ IF race.th["hag"].txs = <<>>
       THEN /\ race' = [race EXCEPT !.th["hag"].pc = "done"]
            /\ UNCHANGED receivedTxs
       ELSE /\ race' = [race EXCEPT
                 !.heap[race.th["hag"].c] =
                    LRUPut(race.heap[race.th["hag"].c], Head(race.th["hag"].txs),
                           GossipPeerCacheSize),
                 !.th["hag"].txs = Tail(race.th["hag"].txs)]
            /\ receivedTxs' = LRUPut(receivedTxs, Head(race.th["hag"].txs),
                                     GossipReceivedCacheSize)
  /\ gossipedTxs' = MapView(race'.heap, race'.slot)
  /\ UNCHANGED <<mempool, txTimestamp, pc, stopChan, doneGossip, contacted, broadcastTxs, last>>

\* both calls are at the get-or-create for RacePeer, which has no cache yet
InitRace ==
  /\ mempool = {}
  /\ txTimestamp = [t \in TxIDs |-> BaseNow + GossipMinLife]
  /\ gossipedTxs = [p \in {} |-> <<>>]
  /\ contacted = {}
  /\ broadcastTxs = {}
  /\ receivedTxs = <<>>
  /\ pc = "Idle"
  /\ stopChan = FALSE
  /\ doneGossip = FALSE
  /\ last = NoLast
  /\ \E batch \in DistinctSeqs(TxIDs, NumTxs) \ {<<>>}, msg \in DistinctSeqs(TxIDs, NumTxs) \ {<<>>} :
       race = [NoRace EXCEPT
                 !.th = [t \in {"send", "hag"} |->
                           [pc |-> "lookup", c |-> 0,
                            txs |-> IF t = "send" THEN batch ELSE msg,
                            all |-> IF t = "send" THEN batch ELSE msg]]]

NextRace ==
  \/ \E t \in {"send", "hag"} : GetLookup(t)
  \/ \E t \in {"send", "hag"} : GetCreate(t)
  \/ \E t \in {"send", "hag"} : GetLoad(t)
  \/ SendFilter
  \/ HagPut

SpecRace == InitRace /\ [][NextRace]_vars

TypeOK ==
  /\ mempool \subseteq TxIDs \cup BatchIDs
  /\ \A p \in DOMAIN gossipedTxs : p \in Peers /\ Len(gossipedTxs[p]) <= LRUSize(GossipPeerCacheSize)
  /\ Len(receivedTxs) <= LRUSize(GossipReceivedCacheSize)
  /\ pc \in {"NotStarted", "Idle", "Stopped", "Panicked"}

(* ---------------- properties ---------------- *)
\* a batching pass has run in the last operation
PassDone == last.op \in {"Tick", "TriggerGossip"} /\ last.scanned

\* the sum, in the integers, of the units of the accepted candidates among
\* the first n visited
RECURSIVE AcceptedUnits(_, _)
AcceptedUnits(visited, n) ==
  IF n = 0 THEN 0
  ELSE AcceptedUnits(visited, n - 1)
       + (IF visited[n].class = "accepted" THEN visited[n].units ELSE 0)

Targeted(m) == m.to \in Peers

\* C1: HandleAppGossip returns nil for every peer and payload, whatever the
\* unmarshalling, the validator lookup and the submissions do; a well-formed
\* message is submitted whole, so a novel transaction next to a duplicate
\* one is in the mempool afterwards
C1_HandleAppGossipReturnsNil ==
  last.op = "HandleAppGossip" =>
    /\ last.ret = "nil"
    /\ ~last.hag.unmarshalErr => last.hag.submitted
    /\ \A i \in 1..Len(last.hag.outcomes) :
         last.hag.outcomes[i] = "nil" => last.hag.msg[i] \in mempool

C1_Witness ==
  /\ last.op = "HandleAppGossip"
  /\ last.ret = "nil"
  /\ \E i, j \in 1..Len(last.hag.outcomes) :
       /\ last.hag.outcomes[i] = "dup"
       /\ last.hag.outcomes[j] = "nil"
       /\ last.hag.msg[j] \in mempool

\* C2: the batch of one TriggerGossip pass has summed units <= maxBlockUnits
\* and at most maxBlockTxs entries, for every mempool and every rule setting
C2_BatchWithinLimits ==
  PassDone =>
    /\ AcceptedUnits(last.visited, Len(last.visited)) <= last.maxBlockUnits
    /\ Len(last.batch) <= last.maxBlockTxs

\* C3 (as claimed): a visited transaction whose ID is in the Global Received
\* Cache is not in the batch, is kept in the mempool, and the scan goes on
C3_ReceivedKeptInMempool ==
  PassDone =>
    \A i \in 1..Len(last.visited) :
      Has(receivedTxs, last.visited[i].tx) =>
        /\ last.visited[i].tx \notin Range(last.batch)
        /\ last.visited[i].tx \in mempool
        /\ last.visited[i].cont

\* C3 (amended): no transaction whose ID is in the Global Received Cache is
\* in the batch or in any message sent, targeted or broadcast; when the scan
\* visits one it goes on past it, and keeps it in the mempool unless it is
\* expired (an expired one is dropped as expired)
C3_ReceivedNeverGossiped ==
  PassDone =>
    /\ \A t \in Range(last.batch) : ~Has(receivedTxs, t)
    /\ \A k \in 1..Len(last.send.msgs) :
         \A t \in Range(last.send.msgs[k].txs) : ~Has(receivedTxs, t)
    /\ \A i \in 1..Len(last.visited) :
         Has(receivedTxs, last.visited[i].tx) =>
           /\ last.visited[i].cont
           /\ txTimestamp[last.visited[i].tx] >= last.now =>
                last.visited[i].restore /\ last.visited[i].tx \in mempool

C3_Witness ==
  /\ PassDone
  /\ last.send.msgs # <<>>
  /\ \E i, j \in 1..Len(last.visited) :
       /\ i < j
       /\ last.visited[i].class = "foreign"
       /\ Has(receivedTxs, last.visited[i].tx)
       /\ last.visited[j].class = "accepted"

\* C4: across sendTxs and HandleAppGossip calls, a transaction found in
\* peer P's Per-Peer Sent Cache (as the previous calls left it, and as the
\* selections made so far for P changed it) is in no targeted message to P;
\* an ID leaves a cache only when the cache is at capacity
C4_NoResendToPeer ==
  [][\A i \in 1..Len(last'.send.filters) :
       /\ last'.send.filters[i].lookups # <<>> =>
            last'.send.filters[i].lookups[1].cache = PeerCache(gossipedTxs, last'.send.filters[i].to)
       /\ \A k \in 1..Len(last'.send.filters[i].lookups) :
            /\ Has(last'.send.filters[i].lookups[k].cache, last'.send.filters[i].lookups[k].tx) =>
                 \A j \in 1..Len(last'.send.msgs) :
                   last'.send.msgs[j].to = last'.send.filters[i].to =>
                     last'.send.filters[i].lookups[k].tx \notin Range(last'.send.msgs[j].txs)
            /\ k > 1 /\ ~(Range(last'.send.filters[i].lookups[k - 1].cache)
                           \subseteq Range(last'.send.filters[i].lookups[k].cache)) =>
                 Len(last'.send.filters[i].lookups[k - 1].cache) = LRUSize(GossipPeerCacheSize)]_vars

\* a batch of two, the first of which the peer's cache held: only the second
\* is sent to that peer
C4_Witness ==
  /\ last.sendCalled
  /\ \E i \in 1..Len(last.send.filters) : \E j \in 1..Len(last.send.msgs) :
       /\ last.send.msgs[j].to = last.send.filters[i].to
       /\ \E k \in 1..Len(last.send.filters[i].lookups) :
            /\ Has(last.send.filters[i].lookups[k].cache, last.send.filters[i].lookups[k].tx)
            /\ last.send.filters[i].lookups[k].tx \notin Range(last.send.msgs[j].txs)

Broadcast == \E i \in 1..Len(last.send.msgs) : last.send.msgs[i].to = "all"

WindowEmptyOrFailed == last.sin.propErr \/ last.sin.order = <<>>

\* C5 (as claimed): the whole batch is broadcast iff the proposer-window query
\* fails or returns an empty set
C5_BroadcastIffNoProposers ==
  last.sendCalled => (Broadcast <=> WindowEmptyOrFailed)

\* C5 (amended): a broadcast happens only if the query fails or returns an
\* empty set; then the whole batch is broadcast once, unless marshaling it
\* fails, in which case nothing is sent; otherwise only targeted messages to
\* proposers of the window other than the local node are sent
C5_FallbackOnlyWithoutProposers ==
  last.sendCalled =>
    /\ Broadcast => WindowEmptyOrFailed
    /\ WindowEmptyOrFailed /\ last.sin.failKind # "marshal" =>
         /\ Len(last.send.msgs) = 1
         /\ last.send.msgs[1].to = "all"
         /\ last.send.msgs[1].txs = last.batch
    /\ WindowEmptyOrFailed /\ last.sin.failKind = "marshal" =>
         last.send.msgs = <<>> /\ last.ret = "err"
    /\ ~WindowEmptyOrFailed =>
         \A i \in 1..Len(last.send.msgs) :
           /\ Targeted(last.send.msgs[i])
           /\ last.send.msgs[i].to \in Range(last.sin.order) \ {Self}
    /\ last.sin.order = <<Self>> /\ ~last.sin.propErr => last.send.msgs = <<>>

C5_Witness ==
  /\ last.sendCalled
  /\ ~last.sin.propErr
  /\ last.sin.order = <<>>
  /\ Broadcast
  /\ last.send.msgs[1].txs = last.batch

\* C6: a tick on which the depth-1 proposer query lists the local node scans
\* nothing and sends nothing; a tick on which the preferred block's timestamp
\* plus the proposer window is before now sends nothing
C6_ThrottledTickSendsNothing ==
  last.op = "Tick" =>
    /\ last.tick.prop = "self" =>
         ~last.scanned /\ ~last.sendCalled /\ last.send.msgs = <<>>
    /\ last.tick.blk \in {"ok", "errStale"}
       /\ last.tick.tmstmp + proposerWindow < last.now =>
         ~last.sendCalled /\ last.send.msgs = <<>>

C6_Witness ==
  /\ last.op = "Tick"
  /\ last.tick.blk = "ok"
  /\ last.tick.tmstmp + proposerWindow < last.now
  /\ last.tick.skip = "stale"
  /\ mempool # {}

\* C7: Stopped is reached with doneGossip closed, and doneGossip is closed
\* (a caller of Done released) only after the shutdown signal was raised
C7_DoneOnlyAfterStop ==
  /\ pc = "Stopped" => doneGossip
  /\ Done => stopChan

\* C8: the batch is the eligible candidates, in priority order, visited
\* before the first one whose units plus the units accumulated so far exceed
\* maxBlockUnits; that one is kept, left out, and ends the scan
C8_BatchIsGreedyPrefix ==
  PassDone =>
    \A i \in 1..Len(last.visited) :
      last.visited[i].class \in {"accepted", "exceeds"} =>
        /\ last.visited[i].class = "exceeds"
             <=> last.visited[i].units + AcceptedUnits(last.visited, i - 1) > last.maxBlockUnits
        /\ last.visited[i].class = "exceeds" =>
             /\ i = Len(last.visited)
             /\ last.visited[i].tx \in mempool
             /\ last.visited[i].tx \notin Range(last.batch)
        /\ last.visited[i].class = "accepted" => last.visited[i].tx \in Range(last.batch)

\* C9: a visited transaction with timestamp < now is left out of the batch,
\* not restored, not penalized, and the scan goes on; one with
\* timestamp = now is not treated as expired
C9_ExpiredDropped ==
  PassDone =>
    \A i \in 1..Len(last.visited) :
      /\ txTimestamp[last.visited[i].tx] < last.now =>
           /\ last.visited[i].class = "expired"
           /\ last.visited[i].cont
           /\ ~last.visited[i].restore
           /\ ~last.visited[i].removeAcct
           /\ last.visited[i].tx \notin Range(last.batch)
           /\ last.visited[i].tx \notin mempool
      /\ txTimestamp[last.visited[i].tx] = last.now =>
           last.visited[i].class # "expired" /\ last.visited[i].restore

C9_Witness ==
  /\ PassDone
  /\ Len(last.visited) > 2
  /\ txTimestamp[last.visited[1].tx] < last.now
  /\ last.visited[1].tx \notin mempool
  /\ txTimestamp[last.visited[2].tx] = last.now
  /\ last.visited[3].class = "accepted"

\* C10 (as claimed): a visited transaction with timestamp - now < minLife is
\* left out of the batch, restored to the mempool, and the scan goes on
C10_ShortLifeKept ==
  PassDone =>
    \A i \in 1..Len(last.visited) :
      txTimestamp[last.visited[i].tx] - last.now < GossipMinLife =>
        /\ last.visited[i].tx \notin Range(last.batch)
        /\ last.visited[i].restore
        /\ last.visited[i].tx \in mempool
        /\ last.visited[i].cont

\* C10 (amended): a visited transaction with 0 <= timestamp - now < minLife
\* is left out of the batch, restored to the mempool, and the scan goes on
C10_NearExpiryKept ==
  PassDone =>
    \A i \in 1..Len(last.visited) :
      /\ txTimestamp[last.visited[i].tx] >= last.now
      /\ txTimestamp[last.visited[i].tx] - last.now < GossipMinLife
      => /\ last.visited[i].class = "nearExpiry"
         /\ last.visited[i].tx \notin Range(last.batch)
         /\ last.visited[i].restore
         /\ ~last.visited[i].removeAcct
         /\ last.visited[i].tx \in mempool
         /\ last.visited[i].cont

C10_Witness ==
  /\ PassDone
  /\ Len(last.visited) > 1
  /\ txTimestamp[last.visited[1].tx] - last.now = GossipMinLife - 1
  /\ last.visited[1].tx \in mempool
  /\ last.visited[2].class = "accepted"

(* ---------------- the dedup caches ---------------- *)
Without(s, S) == SelectSeq(s, LAMBDA x : x \notin S)

LastN(s, n) == IF Len(s) <= n THEN s ELSE SubSeq(s, Len(s) - n + 1, Len(s))

\* a cache of capacity size after the IDs of ids were used in that order:
\* the most recently used IDs, as many as fit, least recent first
AfterUse(c, ids, size) == LastN(Without(c, Range(ids)) \o ids, LRUSize(size))

\* the visited transactions the received-cache lookup found
RECURSIVE ForeignVisited(_)
ForeignVisited(visited) ==
  IF visited = <<>> THEN <<>>
  ELSE IF Head(visited).class = "foreign"
    THEN <<Head(visited).tx>> \o ForeignVisited(Tail(visited))
    ELSE ForeignVisited(Tail(visited))

\* C11: no dedup cache ever holds more IDs than its capacity, and after an
\* operation used IDs of a cache (HandleAppGossip putting the message's IDs,
\* sendTxs looking up or putting the batch's IDs, the scan finding IDs in the
\* received cache) the cache holds the most recently used IDs that fit: what
\* was evicted is the least recently used, lookups counting as use
C11_CachesBoundedLRU ==
  [][/\ Len(receivedTxs') <= GossipReceivedCacheSize
     /\ \A p \in DOMAIN gossipedTxs' : Len(gossipedTxs'[p]) <= GossipPeerCacheSize
     /\ last'.op = "HandleAppGossip" /\ ~last'.hag.unmarshalErr =>
          /\ receivedTxs' = AfterUse(receivedTxs, last'.hag.msg, GossipReceivedCacheSize)
          /\ last'.hag.val = "yes" =>
               gossipedTxs'[last'.hag.nodeID] =
                 AfterUse(PeerCache(gossipedTxs, last'.hag.nodeID), last'.hag.msg,
                          GossipPeerCacheSize)
     /\ last'.scanned =>
          receivedTxs' = AfterUse(receivedTxs, ForeignVisited(last'.visited),
                                  GossipReceivedCacheSize)
     /\ \A i \in 1..Len(last'.send.filters) :
          gossipedTxs'[last'.send.filters[i].to] =
            AfterUse(PeerCache(gossipedTxs, last'.send.filters[i].to), last'.batch,
                     GossipPeerCacheSize)]_vars

\* a full peer cache of capacity >= 2 whose oldest ID the batch looked up
\* before it brought a new ID: the one evicted is the second oldest
C11_Witness ==
  /\ last.sendCalled
  /\ GossipPeerCacheSize >= 2
  /\ \E i \in 1..Len(last.send.filters) :
     \E k, j \in 1..Len(last.send.filters[i].lookups) :
       /\ k < j
       /\ Len(last.send.filters[i].lookups[k].cache) = GossipPeerCacheSize
       /\ last.send.filters[i].lookups[k].tx = last.send.filters[i].lookups[k].cache[1]
       /\ ~Has(last.send.filters[i].lookups[j].cache, last.send.filters[i].lookups[j].tx)
       /\ Has(gossipedTxs[last.send.filters[i].to], last.send.filters[i].lookups[k].tx)
       /\ ~Has(gossipedTxs[last.send.filters[i].to], last.send.filters[i].lookups[k].cache[2])

\* C12: every ID in a peer's Per-Peer Sent Cache was received in a gossip
\* message from that peer or carried in a targeted message to it whose send
\* succeeded; so a peer whose cache holds an ID is one a message was received
\* from or sent to with success
C12_CachedMeansDelivered ==
  \A p \in DOMAIN gossipedTxs : gossipedTxs[p] # <<>> => p \in contacted

\* C13: a tick that passes the imminent-proposer check and whose
\* preferred-block fetch fails goes on to call TriggerGossip: it neither
\* skips the gossip cycle nor ends the loop
C13_FetchFailureStillGossips ==
  last.op = "Tick" /\ last.tick.blk \in {"errNil", "errStale"} =>
    /\ pc = "Idle"
    /\ ~doneGossip
    /\ last.ret \notin {"panic", "skip"}

\* C15: no failure met during a tick is fatal to the Run loop: after the tick
\* the loop is in Idle again, and it leaves Idle only for Stopped, only
\* after the shutdown signal
C15_TickFailuresNeverFatal ==
  /\ last.op = "Tick" => pc = "Idle" /\ last.ret # "panic"
  /\ pc \in {"NotStarted", "Idle", "Stopped"}
  /\ pc = "Stopped" => stopChan

(* ---------------- the targeted sends of sendTxs ---------------- *)
\* the filter loop f found a transaction its cache did not hold
Miss(f) == \E k \in 1..Len(f.lookups) : ~Has(f.lookups[k].cache, f.lookups[k].tx)

MsgsTo(l, p) == {i \in 1..Len(l.send.msgs) : l.send.msgs[i].to = p}

FiltersOf(l, p) == {i \in 1..Len(l.send.filters) : l.send.filters[i].to = p}

\* the call l reached the proposer whose marshal or send fails with a
\* non-empty filtered list
FailedPeer(l) ==
  /\ l.sendCalled
  /\ ~UseFallback(l.sin.propErr, l.sin.order)
  /\ l.sin.failKind \in {"marshal", "send"}
  /\ \E i \in FiltersOf(l, l.sin.failAt) : Miss(l.send.filters[i])

Pos(o, p) == CHOOSE k \in 1..Len(o) : o[k] = p

\* C16: when marshaling or the send for one proposer fails, sendTxs returns
\* the error at once: one attempt at most for that proposer, no message to
\* and no cache created or changed for the proposers later in the iteration,
\* and the messages to the earlier proposers were sent
C16_SendFailureEndsCall ==
  [][FailedPeer(last') =>
       /\ last'.ret = "err"
       /\ last'.sin.failKind = "marshal" => MsgsTo(last', last'.sin.failAt) = {}
       /\ last'.sin.failKind = "send" =>
            /\ Cardinality(MsgsTo(last', last'.sin.failAt)) = 1
            /\ \A i \in MsgsTo(last', last'.sin.failAt) : ~last'.send.msgs[i].ok
       /\ \A j \in 1..Len(last'.sin.order) :
            /\ j > Pos(last'.sin.order, last'.sin.failAt) =>
                 /\ MsgsTo(last', last'.sin.order[j]) = {}
                 /\ FiltersOf(last', last'.sin.order[j]) = {}
                 /\ last'.sin.order[j] \in DOMAIN gossipedTxs' <=>
                      last'.sin.order[j] \in DOMAIN gossipedTxs
                 /\ last'.sin.order[j] \in DOMAIN gossipedTxs =>
                      gossipedTxs'[last'.sin.order[j]] = gossipedTxs[last'.sin.order[j]]
            /\ j < Pos(last'.sin.order, last'.sin.failAt) /\ last'.sin.order[j] # Self =>
                 \E i \in FiltersOf(last', last'.sin.order[j]) :
                   Miss(last'.send.filters[i]) =>
                     \E m \in MsgsTo(last', last'.sin.order[j]) : last'.send.msgs[m].ok]_vars

\* the first of two proposers fails: the second gets no message and no cache
C16_Witness ==
  /\ FailedPeer(last)
  /\ Len(last.sin.order) = 2
  /\ last.sin.order[1] = last.sin.failAt
  /\ last.sin.order[2] \in Peers
  /\ last.sin.order[2] \notin DOMAIN gossipedTxs
  /\ last.send.ret = "err"

\* C18: every targeted message goes to one proposer of the resolved window
\* other than the local node and carries at least one transaction; the local
\* node gets no cache and no lookup, and a proposer whose filtered list is
\* empty gets no message
C18_TargetedMessagesWellFormed ==
  /\ Self \notin DOMAIN gossipedTxs
  /\ last.sendCalled /\ ~UseFallback(last.sin.propErr, last.sin.order) =>
       /\ \A i \in 1..Len(last.send.msgs) :
            /\ last.send.msgs[i].to \in Range(last.sin.order) \cap Peers
            /\ last.send.msgs[i].txs # <<>>
            /\ Range(last.send.msgs[i].txs) \subseteq Range(last.batch)
       /\ \A i \in 1..Len(last.send.filters) :
            /\ last.send.filters[i].to # Self
            /\ ~Miss(last.send.filters[i]) => MsgsTo(last, last.send.filters[i].to) = {}

\* a window of the local node, a proposer that has the whole batch and one
\* that has not
C18_Witness ==
  /\ last.sendCalled
  /\ Len(last.sin.order) = 3
  /\ last.sin.order[1] = Self
  /\ last.send.ret = "nil"
  /\ Len(last.send.msgs) = 1
  /\ \E i \in 1..Len(last.send.filters) :
       /\ ~Miss(last.send.filters[i])
       /\ MsgsTo(last, last.send.filters[i].to) = {}

\* C19: HandleAppGossip with a well-formed message puts every ID of it in
\* the received cache whatever the validator lookup and the submission
\* outcomes are, and in the sender's per-peer cache iff the lookup reports a
\* validator; otherwise the per-peer caches are left alone; a malformed
\* message changes no cache and submits nothing
C19_InboundMarksCaches ==
  [][last'.op = "HandleAppGossip" =>
       IF last'.hag.unmarshalErr
         THEN /\ gossipedTxs' = gossipedTxs
              /\ receivedTxs' = receivedTxs
              /\ mempool' = mempool
              /\ ~last'.hag.submitted
         ELSE /\ receivedTxs' = AfterUse(receivedTxs, last'.hag.msg, GossipReceivedCacheSize)
              /\ last'.hag.submitted
              /\ IF last'.hag.val = "yes"
                   THEN /\ DOMAIN gossipedTxs' = DOMAIN gossipedTxs \cup {last'.hag.nodeID}
                        /\ gossipedTxs'[last'.hag.nodeID] =
                             AfterUse(PeerCache(gossipedTxs, last'.hag.nodeID), last'.hag.msg,
                                      GossipPeerCacheSize)
                        /\ \A p \in DOMAIN gossipedTxs :
                             p # last'.hag.nodeID => gossipedTxs'[p] = gossipedTxs[p]
                   ELSE gossipedTxs' = gossipedTxs]_vars

\* the validator lookup failed and the submission of one transaction too:
\* both IDs are in the received cache and the sender has no cache
C19_Witness ==
  /\ last.op = "HandleAppGossip"
  /\ last.hag.val = "err"
  /\ Len(last.hag.msg) = 2
  /\ \E i \in 1..Len(last.hag.outcomes) : last.hag.outcomes[i] = "other"
  /\ \A t \in Range(last.hag.msg) : Has(receivedTxs, t)
  /\ last.hag.nodeID \notin DOMAIN gossipedTxs

\* the iteration of Mempool().Build of the pass l returned an error
BuildFailed(l) == l.scanned /\ l.failAt > 0 /\ Len(l.visited) >= l.failAt

\* C17: when the Build iteration returns an error TriggerGossip returns it
\* and gossips nothing: sendTxs is not called, no message is sent, and no
\* cache gains or loses an ID, even when candidates were already accepted
C17_BuildErrorGossipsNothing ==
  [][BuildFailed(last') =>
       /\ last'.ret = "err"
       /\ ~last'.sendCalled
       /\ last'.send.msgs = <<>>
       /\ gossipedTxs' = gossipedTxs
       /\ Range(receivedTxs') = Range(receivedTxs)
       /\ Len(receivedTxs') = Len(receivedTxs)]_vars

\* the iteration failed after the first candidate was accepted
C17_Witness ==
  /\ BuildFailed(last)
  /\ last.batch # <<>>
  /\ last.visited[1].class = "accepted"
  /\ last.ret = "err"
  /\ mempool # {}

(* ---------------- the outcomes of the visitor ---------------- *)
SixOutcomes == {"expired", "nearExpiry", "foreign", "invalid", "exceeds", "accepted"}

\* the number of accepted candidates among the first n visited
RECURSIVE AcceptedCount(_, _)
AcceptedCount(visited, n) ==
  IF n = 0 THEN 0
  ELSE AcceptedCount(visited, n - 1) + (IF visited[n].class = "accepted" THEN 1 ELSE 0)

Triple(r) == <<r.cont, r.restore, r.removeAcct>>

\* the budget outcomes: would exceed (kept, scan stops) or accepted (kept,
\* in the batch, scan goes on while the batch is below maxBlockTxs)
BudgetOutcome(i) ==
  \/ last.visited[i].class = "exceeds" /\ Triple(last.visited[i]) = <<FALSE, TRUE, FALSE>>
  \/ /\ last.visited[i].class = "accepted"
     /\ last.visited[i].tx \in Range(last.batch)
     /\ Triple(last.visited[i]) =
          <<AcceptedCount(last.visited, i) < last.maxBlockTxs, TRUE, FALSE>>

\* the outcomes tested before MaxUnits, in their order of precedence;
\* rest is what holds of a candidate none of them applies to
EarlierOutcomes(i, rest) ==
  IF txTimestamp[last.visited[i].tx] < last.now
    THEN last.visited[i].class = "expired" /\ Triple(last.visited[i]) = <<TRUE, FALSE, FALSE>>
  ELSE IF txTimestamp[last.visited[i].tx] - last.now < GossipMinLife
    THEN last.visited[i].class = "nearExpiry" /\ Triple(last.visited[i]) = <<TRUE, TRUE, FALSE>>
  ELSE IF Has(receivedTxs, last.visited[i].tx)
    THEN last.visited[i].class = "foreign" /\ Triple(last.visited[i]) = <<TRUE, TRUE, FALSE>>
  ELSE IF last.visited[i].pre # "ok"
    THEN /\ last.visited[i].class = "invalid"
         /\ Triple(last.visited[i]) = <<TRUE, HandlePreExecute(last.visited[i].pre).restore,
                                        HandlePreExecute(last.visited[i].pre).removeAcct>>
  ELSE rest

C14_FirstContactSerialized ==
  /\ ~race.fatal
  /\ Len(race.heap) <= 1
  /\ race.th["send"].pc = "done" /\ race.th["hag"].pc = "done" =>
       /\ RacePeer \in DOMAIN gossipedTxs
       /\ \A t \in Range(race.th["send"].all) \cup Range(race.th["hag"].all) :
            Has(gossipedTxs[RacePeer], t)

(* ---------------- the broadcast fallback ---------------- *)
FallbackDone(l) == l.sendCalled /\ l.send.fallback

\* C21: a call of sendTxs that takes the broadcast fallback leaves every
\* per-peer cache as it was (none created, no ID marked, no recency changed)
\* and adds nothing to the received cache, which holds what the scan of the
\* pass left, whether the broadcast succeeds or fails; so in a later targeted
\* call an ID broadcast before is sent to every proposer whose cache misses it
C21_FallbackLeavesCaches ==
  [][/\ FallbackDone(last') =>
          /\ gossipedTxs' = gossipedTxs
          /\ Range(receivedTxs') = Range(receivedTxs)
          /\ receivedTxs' = AfterUse(receivedTxs, ForeignVisited(last'.visited),
                                     GossipReceivedCacheSize)
     /\ last'.sendCalled /\ ~last'.send.fallback =>
          \A i \in 1..Len(last'.send.filters) :
            \A k \in 1..Len(last'.send.filters[i].lookups) :
              /\ last'.send.filters[i].lookups[k].tx \in broadcastTxs
              /\ ~Has(last'.send.filters[i].lookups[k].cache, last'.send.filters[i].lookups[k].tx)
              /\ ~(last'.sin.failKind = "marshal" /\ last'.sin.failAt = last'.send.filters[i].to)
              => \E m \in MsgsTo(last', last'.send.filters[i].to) :
                   last'.send.filters[i].lookups[k].tx \in Range(last'.send.msgs[m].txs)]_vars

\* an ID that was broadcast with success while a peer had a cache is, in a
\* later call, in a targeted message to that peer
C21_Witness ==
  /\ last.sendCalled
  /\ ~last.send.fallback
  /\ \E m \in 1..Len(last.send.msgs) :
       /\ Targeted(last.send.msgs[m])
       /\ last.send.msgs[m].ok
       /\ Range(last.send.msgs[m].txs) \cap broadcastTxs # {}
       /\ \E i \in FiltersOf(last, last.send.msgs[m].to) :
            last.send.filters[i].lookups[1].cache # <<>>

====
